---- MODULE Spec2Model ----
(***************************************************************************)
(* Batch-transform pipeline with a Lambda (callback) step.                 *)
(*                                                                         *)
(* The notebook declares three steps (fetchLatestModel, CreateModel,       *)
(* Transform), wires them by property references, starts one execution and *)
(* waits for it.  The Lambda behind the first step calls                   *)
(* get_approved_package, which the notebook also calls directly before the *)
(* pipeline is built and again during clean-up.                            *)
(*                                                                         *)
(* Specifications:                                                         *)
(*   SelectorSpec  the two direct calls of get_approved_package against an *)
(*                 unchanged registry;                                     *)
(*   Spec          build, start and execution of the pipeline              *)
(*   FairSpec      Spec with the fairness of the step timer;               *)
(*   LiveSpec      Spec with the fairness of the timer, of the orchestrator*)
(*                 and of the job steps.                                   *)
(***************************************************************************)
EXTENDS Integers, Sequences, FiniteSets, TLC

VARIABLES
    registry,       \* model packages of model_package_group_name
    results,        \* results of the notebook's direct get_approved_package calls
    lambdaOutputs,  \* output names declared by the LambdaStep (outputs=[...])
    pc,             \* notebook position: "build", "start", "wait", "done"
    runStatus,      \* status of the pipeline execution
    failedNode,     \* {} or {name of the step the failure is reported for}
    errorKind,      \* error kind reported with the failure, "None" if none
    nodeStatus,     \* step name -> status
    nodeError,      \* step name -> error kind, "None" if none
    outputs,        \* step name -> set of <<output name, value>>
    inputs,         \* step name -> set of <<input name, value>> resolved at start
    selected,       \* {} or {package returned to the Lambda handler}
    startCount,     \* step name -> number of times the step was started
    listCalls,      \* listing calls issued by the execution
    elapsed,        \* time the Lambda step has been waiting
    stopRequested   \* a stop of the execution was requested

vars == <<registry, results, lambdaOutputs, pc, runStatus, failedNode, errorKind,
          nodeStatus, nodeError, outputs, inputs, selected, startCount,
          listCalls, elapsed, stopRequested>>

runVars == <<lambdaOutputs, pc, runStatus, failedNode, errorKind, nodeStatus,
             nodeError, outputs, inputs, selected, startCount, listCalls, elapsed,
             stopRequested>>

----------------------------------------------------------------------------
(* Bounds *)

MaxRecords == 3     \* packages in the registry, SelectorSpec
MaxTime == 3        \* creation times 1..MaxTime, SelectorSpec
RunRecords == 2     \* packages in the registry, Spec
RunTimes == 2       \* creation times 1..RunTimes, Spec
TickSteps == 3      \* timer steps from 0 to the timeout

----------------------------------------------------------------------------
(* Model registry *)

ApprovalStatuses == {"Approved", "Rejected", "PendingManualApproval"}

ModelPackage(a, t, s) ==
    [arn |-> a, creationTime |-> t, approvalStatus |-> s,
     imageUri |-> <<"Image", a>>, modelDataUrl |-> <<"ModelDataUrl", a>>]

\* Every registry state with at most n packages and creation times in 1..m.
Registries(n, m) ==
    UNION { { { ModelPackage(a, f[a][1], f[a][2]) : a \in S } :
                f \in [S -> (1..m) \X ApprovalStatuses] } :
            S \in SUBSET (1..n) }

IsDescending(l) ==
    \A i \in 1..(Len(l) - 1) : l[i].creationTime >= l[i + 1].creationTime

\* What the registry may answer to a listing sorted by creation time,
\* newest first: the order of packages of equal creation time is not fixed.
ListModelPackages(reg) ==
    { l \in [1..Cardinality(reg) -> reg] :
        /\ \A i, j \in 1..Cardinality(reg) : i # j => l[i] # l[j]
        /\ IsDescending(l) }

IsApproved(r) == r.approvalStatus = "Approved"

Found(r) == [error |-> "None", package |-> {r}]

Raised(e) == [error |-> e, package |-> {}]

\* Mutant: the last Approved entry of the listing, the oldest one.
SelectLastApproved(listing) ==
    LET approved == SelectSeq(listing, IsApproved)
    IN  IF approved = <<>> THEN Raised("NotFound") ELSE Found(approved[Len(approved)])

\* Mutant: without an Approved entry, falls back to the newest package.
SelectNewestIfNoneApproved(listing) ==
    LET approved == SelectSeq(listing, IsApproved)
    IN  IF approved # <<>> THEN Found(approved[1])
        ELSE IF listing # <<>> THEN Found(listing[1])
        ELSE Raised("NotFound")

\* get_approved_package on a completed listing: the first Approved entry.
SelectFirstApproved(listing) ==
    LET approved == SelectSeq(listing, IsApproved)
    IN  IF approved = <<>> THEN Raised("NotFound") ELSE Found(approved[1])

\* Every outcome of one call of get_approved_package against reg.
GetApprovedPackage(reg) ==
    {Raised("RegistryUnavailable")}
        \cup { SelectFirstApproved(l) : l \in ListModelPackages(reg) }

----------------------------------------------------------------------------
(* Pipeline definition *)

timeout == 600

TickSize == timeout \div TickSteps

Min(a, b) == IF a <= b THEN a ELSE b

Fetch == "fetchLatestModel"

Create == "CreateModel"

Transform == "Transform"

\* steps=[step_latest_model_fetch, step_create_model, step_transform]
Steps == <<Fetch, Create, Transform>>

StepNames == {Steps[i] : i \in 1..Len(Steps)}

\* The two LambdaOutput declarations of the notebook.
LambdaOutputNames == {"ModelUrl", "ImageUri"}

\* Mutant: image_uri and model_data bound to each other's output.
SwappedReferences ==
    { [step |-> Create, input |-> "image_uri", from |-> Fetch, output |-> "ModelUrl"],
      [step |-> Create, input |-> "model_data", from |-> Fetch, output |-> "ImageUri"],
      [step |-> Transform, input |-> "model_name", from |-> Create, output |-> "ModelName"] }

\* Property references between steps: step.input is bound to from.output.
References ==
    { [step |-> Create, input |-> "image_uri", from |-> Fetch, output |-> "ImageUri"],
      [step |-> Create, input |-> "model_data", from |-> Fetch, output |-> "ModelUrl"],
      [step |-> Transform, input |-> "model_name", from |-> Create, output |-> "ModelName"] }

ReferencesOf(n) == { r \in References : r.step = n }

\* Mutant: no step waits for another.
DependsOnNothing(n) == {}

\* A step depends on every step whose properties it references.
DependsOn(n) == { r.from : r \in ReferencesOf(n) }

\* Output names a step declares; the Lambda step's come from outputs=[...].
Declared(n) ==
    IF n = Fetch THEN lambdaOutputs
    ELSE IF n = Create THEN {"ModelName"}
    ELSE {}

\* References to an output the referenced step does not declare.
Unresolved == { r \in References : r.output \notin Declared(r.from) }

ValueOf(outs, name) == { p[2] : p \in { q \in outs : q[1] = name } }

\* Inputs of step n, substituted from the outputs of the completed steps.
ResolveInputs(n) ==
    UNION { { <<r.input, v>> : v \in ValueOf(outputs[r.from], r.output) } :
            r \in ReferencesOf(n) }

\* What the Lambda handler returns for the selected package, as far as declared.
LambdaReturn(r) ==
    { p \in { <<"ModelUrl", r.modelDataUrl>>, <<"ImageUri", r.imageUri>> } :
        p[1] \in lambdaOutputs }

ModelNames == { <<"ModelName", 1>>, <<"ModelName", 2>> }

Terminal == {"Succeeded", "Failed", "Stopped"}

Running == { n \in StepNames : nodeStatus[n] = "Executing" }

\* The orchestrator starts a step of an executing run once all the steps it
\* depends on have succeeded.
Ready(n) ==
    /\ pc = "wait"
    /\ runStatus = "Executing"
    /\ nodeStatus[n] = "NotStarted"
    /\ \A d \in DependsOn(n) : nodeStatus[d] = "Succeeded"

\* Run status after a step completed successfully; last is TRUE for the final step.
AfterSuccess(last) ==
    IF runStatus = "Stopping" THEN "Stopped"
    ELSE IF last THEN "Succeeded"
    ELSE runStatus

----------------------------------------------------------------------------
(* Initial states *)

RunIdle ==
    /\ pc = "build"
    /\ runStatus = "NotStarted"
    /\ failedNode = {}
    /\ errorKind = "None"
    /\ nodeStatus = [n \in StepNames |-> "NotStarted"]
    /\ nodeError = [n \in StepNames |-> "None"]
    /\ outputs = [n \in StepNames |-> {}]
    /\ inputs = [n \in StepNames |-> {}]
    /\ selected = {}
    /\ startCount = [n \in StepNames |-> 0]
    /\ listCalls = 0
    /\ elapsed = 0
    /\ stopRequested = FALSE

Init ==
    /\ registry \in Registries(RunRecords, RunTimes)
    /\ results = <<>>
    /\ lambdaOutputs \in SUBSET LambdaOutputNames
    /\ RunIdle

SelectorInit ==
    /\ registry \in Registries(MaxRecords, MaxTime)
    /\ results = <<>>
    /\ lambdaOutputs = LambdaOutputNames
    /\ RunIdle

----------------------------------------------------------------------------
(* Direct calls of get_approved_package in the notebook *)

\* get_approved_package(model_package_group_name) after registering the model.
CheckRegistered ==
    /\ Len(results) = 0
    /\ \E res \in GetApprovedPackage(registry) : results' = Append(results, res)
    /\ UNCHANGED <<registry, runVars>>

\* get_approved_package(model_package_group_name)["ModelPackageArn"] in clean-up.
CleanupLookup ==
    /\ Len(results) = 1
    /\ \E res \in GetApprovedPackage(registry) : results' = Append(results, res)
    /\ UNCHANGED <<registry, runVars>>

----------------------------------------------------------------------------
(* Build and start *)

\* Mutant: references are not looked up when the pipeline is built.
BuildUnchecked ==
    /\ pc = "build"
    /\ pc' = "start"
    /\ UNCHANGED <<registry, results, lambdaOutputs, runStatus, failedNode, errorKind,
                   nodeStatus, nodeError, outputs, inputs, selected, startCount,
                   listCalls, elapsed, stopRequested>>

\* Model(...), Transformer(...), Pipeline(...): every reference is looked up
\* by name among the declared outputs of the step it points to.
Build ==
    /\ pc = "build"
    /\ IF Unresolved = {}
       THEN /\ pc' = "start"
            /\ UNCHANGED <<runStatus, failedNode, errorKind>>
       ELSE /\ pc' = "done"
            /\ runStatus' = "Failed"
            /\ failedNode' = { r.step : r \in Unresolved }
            /\ errorKind' = "InvalidTopology"
    /\ UNCHANGED <<registry, results, lambdaOutputs, nodeStatus, nodeError, outputs,
                   inputs, selected, startCount, listCalls, elapsed, stopRequested>>

\* execution = pipeline.start()
Start ==
    /\ pc = "start"
    /\ pc' = "wait"
    /\ runStatus' = "Executing"
    /\ UNCHANGED <<registry, results, lambdaOutputs, failedNode, errorKind, nodeStatus,
                   nodeError, outputs, inputs, selected, startCount, listCalls, elapsed, stopRequested>>

\* execution.wait() returns once the execution is terminal.
WaitReturn ==
    /\ pc = "wait"
    /\ runStatus \in Terminal
    /\ pc' = "done"
    /\ UNCHANGED <<registry, results, lambdaOutputs, runStatus, failedNode, errorKind,
                   nodeStatus, nodeError, outputs, inputs, selected, startCount,
                   listCalls, elapsed, stopRequested>>

----------------------------------------------------------------------------
(* Steps *)

StartStep(n) ==
    /\ Ready(n)
    /\ nodeStatus' = [nodeStatus EXCEPT ![n] = "Executing"]
    /\ inputs' = [inputs EXCEPT ![n] = ResolveInputs(n)]
    /\ startCount' = [startCount EXCEPT ![n] = @ + 1]

\* Mutant: the step fails but the execution does not report it.
FailStepUnreported(n, e) ==
    /\ nodeStatus' = [nodeStatus EXCEPT ![n] = "Failed"]
    /\ nodeError' = [nodeError EXCEPT ![n] = e]
    /\ UNCHANGED <<runStatus, failedNode, errorKind>>

FailStep(n, e) ==
    /\ nodeStatus' = [nodeStatus EXCEPT ![n] = "Failed"]
    /\ nodeError' = [nodeError EXCEPT ![n] = e]
    /\ runStatus' = "Failed"
    /\ failedNode' = {n}
    /\ errorKind' = e

\* The Lambda step invokes the function and starts waiting for its answer.
FetchStart ==
    /\ StartStep(Fetch)
    /\ elapsed' = 0
    /\ UNCHANGED <<registry, results, lambdaOutputs, pc, runStatus, failedNode,
                   errorKind, nodeError, outputs, selected, listCalls, stopRequested>>

\* The handler ran get_approved_package and answered with the package found.
FetchSucceed ==
    /\ nodeStatus[Fetch] = "Executing"
    /\ elapsed < timeout
    /\ \E res \in GetApprovedPackage(registry) :
          /\ res.error = "None"
          /\ selected' = res.package
          /\ outputs' = [outputs EXCEPT ![Fetch] = UNION { LambdaReturn(r) : r \in res.package }]
    /\ listCalls' = listCalls + 1
    /\ nodeStatus' = [nodeStatus EXCEPT ![Fetch] = "Succeeded"]
    /\ runStatus' = AfterSuccess(FALSE)
    /\ UNCHANGED <<registry, results, lambdaOutputs, pc, failedNode, errorKind,
                   nodeError, inputs, startCount, elapsed, stopRequested>>

\* Mutant: a failed invocation puts the step back to be started again.
FetchFailRetry ==
    /\ nodeStatus[Fetch] = "Executing"
    /\ elapsed < timeout
    /\ \E res \in GetApprovedPackage(registry) : res.error # "None"
    /\ listCalls' = listCalls + 1
    /\ nodeStatus' = [nodeStatus EXCEPT ![Fetch] = "NotStarted"]
    /\ UNCHANGED <<registry, results, lambdaOutputs, pc, runStatus, failedNode,
                   errorKind, nodeError, outputs, inputs, selected, startCount,
                   elapsed, stopRequested>>

\* The handler ran get_approved_package, which raised; the step fails.
FetchFail ==
    /\ nodeStatus[Fetch] = "Executing"
    /\ elapsed < timeout
    /\ \E res \in GetApprovedPackage(registry) :
          /\ res.error # "None"
          /\ FailStep(Fetch, res.error)
    /\ listCalls' = listCalls + 1
    /\ UNCHANGED <<registry, results, lambdaOutputs, pc, outputs, inputs, selected,
                   startCount, elapsed, stopRequested>>

\* Time passes while the Lambda step waits.
Tick ==
    /\ nodeStatus[Fetch] = "Executing"
    /\ elapsed < timeout
    /\ elapsed' = Min(elapsed + TickSize, timeout)
    /\ UNCHANGED <<registry, results, lambdaOutputs, pc, runStatus, failedNode,
                   errorKind, nodeStatus, nodeError, outputs, inputs, selected,
                   startCount, listCalls, stopRequested>>

\* Mutant: the expired wait is taken for a completed step.
FetchTimeoutCompletes ==
    /\ nodeStatus[Fetch] = "Executing"
    /\ elapsed >= timeout
    /\ nodeStatus' = [nodeStatus EXCEPT ![Fetch] = "Succeeded"]
    /\ runStatus' = AfterSuccess(FALSE)
    /\ UNCHANGED <<registry, results, lambdaOutputs, pc, failedNode, errorKind,
                   nodeError, outputs, inputs, selected, startCount, listCalls,
                   elapsed, stopRequested>>

\* Mutant: the timer is dropped once a stop was requested.
FetchTimeoutUnlessStopping ==
    /\ nodeStatus[Fetch] = "Executing"
    /\ elapsed >= timeout
    /\ runStatus # "Stopping"
    /\ FailStep(Fetch, "CallbackTimeout")
    /\ UNCHANGED <<registry, results, lambdaOutputs, pc, outputs, inputs, selected,
                   startCount, listCalls, elapsed, stopRequested>>

\* timeout=600 passed without an answer.
FetchTimeout ==
    /\ nodeStatus[Fetch] = "Executing"
    /\ elapsed >= timeout
    /\ FailStep(Fetch, "CallbackTimeout")
    /\ UNCHANGED <<registry, results, lambdaOutputs, pc, outputs, inputs, selected,
                   startCount, listCalls, elapsed, stopRequested>>

CreateModelStart ==
    /\ StartStep(Create)
    /\ UNCHANGED <<registry, results, lambdaOutputs, pc, runStatus, failedNode,
                   errorKind, nodeError, outputs, selected, listCalls, elapsed, stopRequested>>

CreateModelFinish ==
    /\ nodeStatus[Create] = "Executing"
    /\ \E m \in ModelNames : outputs' = [outputs EXCEPT ![Create] = {<<"ModelName", m>>}]
    /\ nodeStatus' = [nodeStatus EXCEPT ![Create] = "Succeeded"]
    /\ runStatus' = AfterSuccess(FALSE)
    /\ UNCHANGED <<registry, results, lambdaOutputs, pc, failedNode, errorKind,
                   nodeError, inputs, selected, startCount, listCalls, elapsed, stopRequested>>

TransformStart ==
    /\ StartStep(Transform)
    /\ UNCHANGED <<registry, results, lambdaOutputs, pc, runStatus, failedNode,
                   errorKind, nodeError, outputs, selected, listCalls, elapsed, stopRequested>>

\* Mutant: the last step ends but the execution is not closed.
TransformFinishKeepsRunning ==
    /\ nodeStatus[Transform] = "Executing"
    /\ nodeStatus' = [nodeStatus EXCEPT ![Transform] = "Succeeded"]
    /\ UNCHANGED <<registry, results, lambdaOutputs, pc, runStatus, failedNode,
                   errorKind, nodeError, outputs, inputs, selected, startCount,
                   listCalls, elapsed, stopRequested>>

TransformFinish ==
    /\ nodeStatus[Transform] = "Executing"
    /\ nodeStatus' = [nodeStatus EXCEPT ![Transform] = "Succeeded"]
    /\ runStatus' = AfterSuccess(TRUE)
    /\ UNCHANGED <<registry, results, lambdaOutputs, pc, failedNode, errorKind,
                   nodeError, outputs, inputs, selected, startCount, listCalls, elapsed, stopRequested>>

----------------------------------------------------------------------------
(* Cancellation of the execution *)

\* A stop request: the run stops at once if no step is executing, otherwise
\* it is stopping until the executing step has ended.
Cancel ==
    /\ runStatus = "Executing"
    /\ runStatus' = IF Running = {} THEN "Stopped" ELSE "Stopping"
    /\ stopRequested' = TRUE
    /\ UNCHANGED <<registry, results, lambdaOutputs, pc, failedNode, errorKind,
                   nodeStatus, nodeError, outputs, inputs, selected, startCount,
                   listCalls, elapsed>>

\* A stopping run ends its executing job step.  The Lambda step is not ended
\* this way: an invoked function runs until it answers or times out.
StopStep ==
    /\ runStatus = "Stopping"
    /\ \E n \in Running \ {Fetch} : nodeStatus' = [nodeStatus EXCEPT ![n] = "Stopped"]
    /\ runStatus' = "Stopped"
    /\ UNCHANGED <<registry, results, lambdaOutputs, pc, failedNode, errorKind,
                   nodeError, outputs, inputs, selected, startCount, listCalls, elapsed,
                   stopRequested>>

----------------------------------------------------------------------------
(* Specifications *)

Next ==
    \/ Build
    \/ Start
    \/ WaitReturn
    \/ FetchStart
    \/ FetchSucceed
    \/ FetchFail
    \/ Tick
    \/ FetchTimeout
    \/ CreateModelStart
    \/ CreateModelFinish
    \/ TransformStart
    \/ TransformFinish
    \/ Cancel
    \/ StopStep

Spec == Init /\ [][Next]_vars

\* The step timer keeps running and fires; nothing obliges the function to answer.
FairSpec == Spec /\ WF_vars(Tick) /\ WF_vars(FetchTimeout)

\* The orchestrator starts every step that is ready, the model-hosting and
\* batch-transform jobs answer, and the step timer keeps running and fires.
\* The function behind the Lambda step is still free never to answer.
LiveSpec ==
    /\ Spec
    /\ WF_vars(FetchStart)
    /\ WF_vars(Tick)
    /\ WF_vars(FetchTimeout)
    /\ WF_vars(CreateModelStart)
    /\ WF_vars(CreateModelFinish)
    /\ WF_vars(TransformStart)
    /\ WF_vars(TransformFinish)

SelectorNext == CheckRegistered \/ CleanupLookup

SelectorSpec == SelectorInit /\ [][SelectorNext]_vars

----------------------------------------------------------------------------
(* Registry selector *)

Completed(res) == res.error # "RegistryUnavailable"

Approved(reg) == { r \in reg : IsApproved(r) }

LatestApprovedTime(reg) ==
    CHOOSE t \in { r.creationTime : r \in Approved(reg) } :
        \A r \in Approved(reg) : r.creationTime <= t

\* C1: whenever the group holds at least one Approved package and the listing
\* completed, get_approved_package returns exactly one package, it is an
\* Approved package of the group, and its creation time is the maximum among
\* the Approved packages, whatever the other packages are.
C1_LatestApproved ==
    \A i \in 1..Len(results) :
        (Approved(registry) # {} /\ Completed(results[i])) =>
            /\ results[i].error = "None"
            /\ Cardinality(results[i].package) = 1
            /\ \A r \in results[i].package :
                  /\ r \in Approved(registry)
                  /\ r.creationTime = LatestApprovedTime(registry)

\* An older Approved package is returned although a Rejected and a pending
\* package are newer.
C1_Witness ==
    /\ Len(results) >= 1
    /\ results[1].error = "None"
    /\ \E r \in registry :
          r.approvalStatus = "Rejected" /\ r.creationTime > LatestApprovedTime(registry)
    /\ \E r \in registry :
          /\ r.approvalStatus = "PendingManualApproval"
          /\ r.creationTime > LatestApprovedTime(registry)

\* C2: whenever the group holds no Approved package (the empty group
\* included) and the listing completed, get_approved_package fails with
\* NotFound and returns no package.
C2_NotFound ==
    \A i \in 1..Len(results) :
        (Approved(registry) = {} /\ Completed(results[i])) =>
            /\ results[i].error = "NotFound"
            /\ results[i].package = {}

\* A group of Rejected and pending packages only, and the call raised NotFound.
C2_Witness ==
    /\ Cardinality(registry) >= 2
    /\ Approved(registry) = {}
    /\ Len(results) >= 1
    /\ results[1].error = "NotFound"

\* C9: two calls of get_approved_package against the unchanged registry that
\* both return a package return the identical package, also when two Approved
\* packages share the maximal creation time.
C9_Idempotent ==
    (/\ Len(results) = 2
     /\ results[1].error = "None"
     /\ results[2].error = "None") => results[1].package = results[2].package

----------------------------------------------------------------------------
(* Pipeline execution *)

Started(n) == nodeStatus[n] # "NotStarted"

\* C3: CreateModel is started only after fetchLatestModel succeeded and
\* produced ModelUrl and ImageUri, Transform only after CreateModel succeeded
\* and produced its model name, and at most one step is executing at a time.
C3_Sequential ==
    /\ Started(Create) =>
          /\ nodeStatus[Fetch] = "Succeeded"
          /\ ValueOf(outputs[Fetch], "ModelUrl") # {}
          /\ ValueOf(outputs[Fetch], "ImageUri") # {}
    /\ Started(Transform) =>
          /\ nodeStatus[Create] = "Succeeded"
          /\ ValueOf(outputs[Create], "ModelName") # {}
    /\ Cardinality(Running) <= 1

\* Transform is executing, after the two steps before it.
C3_Witness ==
    /\ nodeStatus[Transform] = "Executing"
    /\ startCount = [n \in StepNames |-> 1]

TimedOut == nodeStatus[Fetch] = "Failed" /\ nodeError[Fetch] = "CallbackTimeout"

Expired == nodeStatus[Fetch] = "Executing" /\ elapsed >= timeout

\* C4: a Lambda step that has waited the 600 time units without an answer
\* leaves the wait only as failed with CallbackTimeout, it does fail so, and
\* in a run whose Lambda step timed out CreateModel and Transform are never
\* started.
C4_TimeoutFails ==
    /\ [][(Expired /\ nodeStatus'[Fetch] # "Executing") => TimedOut']_vars
    /\ (Expired ~> TimedOut)
    /\ [](TimedOut =>
            \A n \in {Create, Transform} : ~Started(n) /\ startCount[n] = 0)

\* The run is over after the Lambda step timed out at 600.
C4_Witness ==
    /\ TimedOut
    /\ elapsed = 600
    /\ ~stopRequested
    /\ pc = "done"

RunErrors == {"NotFound", "RegistryUnavailable", "CallbackTimeout", "InvalidTopology"}

\* Steps that use, directly or through another step, an output of step n.
Downstream(n) ==
    LET direct(k) == { m \in StepNames : k \in { r.from : r \in { q \in References : q.step = m } } }
    IN  direct(n) \cup UNION { direct(m) : m \in direct(n) }

Dangling == { r \in References : r.output \notin Declared(r.from) }

\* C5: when a step has failed with NotFound, RegistryUnavailable or
\* CallbackTimeout the run is Failed and reports that step and that error
\* kind, and no step downstream of it was started or given an input; when a
\* reference is dangling the run is Failed with InvalidTopology, reports the
\* referencing step, and no step was started.
C5_ErrorsSurface ==
    /\ \A n \in StepNames :
          nodeError[n] \in RunErrors =>
              /\ nodeStatus[n] = "Failed"
              /\ runStatus = "Failed"
              /\ failedNode = {n}
              /\ errorKind = nodeError[n]
              /\ \A m \in Downstream(n) : ~Started(m) /\ inputs[m] = {}
    /\ (pc # "build" /\ Dangling # {}) =>
          /\ runStatus = "Failed"
          /\ errorKind = "InvalidTopology"
          /\ failedNode = { r.step : r \in Dangling }
          /\ \A n \in StepNames : ~Started(n) /\ inputs[n] = {}

\* The run ended Failed, reporting fetchLatestModel and NotFound.
C5_Witness ==
    /\ nodeError[Fetch] = "NotFound"
    /\ runStatus = "Failed"
    /\ pc = "done"

\* C6: every step is started at most once and the listing is called at most
\* once in a run, and a failed step stays failed and is not started again.
C6_NoRetry ==
    /\ [](\A n \in StepNames : startCount[n] <= 1)
    /\ [](listCalls <= 1)
    /\ [][\A n \in StepNames :
            nodeStatus[n] = "Failed" =>
                nodeStatus'[n] = "Failed" /\ startCount'[n] = startCount[n]]_vars

\* The run is over after the registry could not be listed.
C6_Witness ==
    /\ nodeStatus[Fetch] = "Failed"
    /\ nodeError[Fetch] = "RegistryUnavailable"
    /\ startCount[Fetch] = 1
    /\ listCalls = 1
    /\ pc = "done"

Ended(n) == nodeStatus[n] \in {"Succeeded", "Failed"}

\* C7: a Lambda step still waiting when the run is being stopped is
\* eventually released, answer or no answer; and no step of a run being
\* stopped changes the status, error or outputs of a step that has ended.
C7_CancelReleases ==
    /\ ((stopRequested /\ nodeStatus[Fetch] = "Executing")
            ~> (nodeStatus[Fetch] # "Executing"))
    /\ [][(stopRequested' /\ \E n \in StepNames : Ended(n)) =>
            \A n \in StepNames :
                Ended(n) => /\ nodeStatus'[n] = nodeStatus[n]
                            /\ nodeError'[n] = nodeError[n]
                            /\ outputs'[n] = outputs[n]]_vars

\* The stop was requested while the Lambda step waited, no answer came, and
\* the step was released when its time was up.
C7_Witness ==
    /\ stopRequested
    /\ TimedOut
    /\ listCalls = 0

\* C8: once the build is over, it has succeeded if the Lambda step declares
\* ModelUrl and ImageUri, and whenever a step references an output that the
\* referenced step does not declare it has failed with InvalidTopology and no
\* step has been started.
C8_Topology ==
    pc # "build" =>
        /\ lambdaOutputs = LambdaOutputNames => errorKind # "InvalidTopology"
        /\ (\E r \in References : r.output \notin Declared(r.from)) =>
              /\ pc = "done"
              /\ runStatus = "Failed"
              /\ errorKind = "InvalidTopology"
              /\ \A n \in StepNames : ~Started(n) /\ startCount[n] = 0

\* ImageUri is not declared while CreateModel references it: the build failed.
C8_Witness ==
    /\ lambdaOutputs = {"ModelUrl"}
    /\ pc = "done"
    /\ errorKind = "InvalidTopology"

\* C10: once CreateModel is started its image_uri is the imageUri and its
\* model_data the modelDataUrl of the one package the Lambda selected; once
\* Transform is started its model_name is the name CreateModel produced.
C10_DataFlow ==
    /\ Started(Create) =>
          /\ Cardinality(selected) = 1
          /\ \A r \in selected :
                inputs[Create] = { <<"image_uri", r.imageUri>>,
                                   <<"model_data", r.modelDataUrl>> }
    /\ Started(Transform) =>
          /\ Cardinality(outputs[Create]) = 1
          /\ inputs[Transform] = { <<"model_name", p[2]>> : p \in outputs[Create] }

\* Transform runs on the model made from the second of two Approved packages.
C10_Witness ==
    /\ nodeStatus[Transform] = "Executing"
    /\ Cardinality(Approved(registry)) = 2
    /\ \E r \in selected : r.arn = 2 /\ <<"image_uri", <<"Image", 2>>>> \in inputs[Create]

----------------------------------------------------------------------------
(* Termination *)

InProgress == runStatus \in {"Executing", "Stopping"}

Closed == runStatus \in Terminal /\ Running = {}

\* A step of a terminal run leaves the run and every step as they are.
Frozen ==
    runStatus \in Terminal =>
        /\ runStatus' = runStatus
        /\ failedNode' = failedNode
        /\ errorKind' = errorKind
        /\ nodeStatus' = nodeStatus
        /\ nodeError' = nodeError
        /\ outputs' = outputs

\* C11: with steps started when ready, job steps that answer and a timer
\* that fires, every started run reaches a terminal status (Succeeded, Failed
\* or Stopped) with no step left executing; and once the run is terminal its
\* status, the reported failure and the status, error and outputs of every
\* step never change again.
C11_Terminates == (InProgress ~> Closed) /\ [][Frozen]_vars

\* The run succeeded with all three steps succeeded and wait() has returned.
C11_Witness ==
    /\ runStatus = "Succeeded"
    /\ \A n \in StepNames : nodeStatus[n] = "Succeeded"
    /\ pc = "done"

====
